---- MODULE Spec2Model ----
(***************************************************************************)
(* Model of lightningd/bitcoind.c: the serialized asynchronous driver of   *)
(* bitcoin-cli.  One request (struct bitcoin_cli) at a time is spawned as  *)
(* a child process; bcli_finished reaps it, applies the exit-status        *)
(* policy, runs the request's processing function inside a database        *)
(* transaction and dispatches the next pending request.                    *)
(***************************************************************************)
EXTENDS Integers, Sequences, FiniteSets, TLC

\* ------------------------------------------------------------------ bounds
\* Total number of start_bitcoin_cli calls (struct bitcoin_cli allocations).
MaxReqs == 3
\* Total number of calls of the public operations.
MaxCalls == 2
\* The monotonic clock stops advancing here (seconds).
MaxTime == 121
\* Passes of wait_for_bitcoind's loop.
MaxProbes == 3

\* ------------------------------------------------------- program constants
\* time_from_sec(60): the tolerated window of spurious errors.
ErrorWindowSec == 60
\* The exit status of bitcoin-cli while bitcoind warms up (RPC_IN_WARMUP = -28).
RpcInWarmupExit == 28

NULL == 0

VARIABLES
  pending,          \* bitcoind->pending: list of request ids, head first
  req_running,      \* bitcoind->req_running
  shutdown,         \* bitcoind->shutdown
  error_count,      \* bitcoind->error_count
  first_error_time, \* bitcoind->first_error_time
  bcli,             \* every struct bitcoin_cli allocated so far, by id
  calls,            \* every public operation called so far (estimatefee / get_output state)
  stoppers,         \* anchor -> ids of the requests whose stopper is a live child of it
  anchorAlive,      \* the anchors (ctx arguments of start_bitcoin_cli) not yet freed
  alive,            \* pids spawned by pipecmdarr and not yet reaped by waitpid
  now,              \* time_mono(), in seconds
  fatal,            \* "" while the process runs, else the fatal() call that ended it
  spawnLog,         \* ids of the requests whose child was spawned, oldest first
  cbLog,            \* the user callbacks fired, oldest first: the call, and the request that completed it
  streakOn,         \* a non-capture child exited nonzero since the last zero exit
  streakStart,      \* when the first such exit since the last zero exit happened
  events,           \* what the handler that ran last did, in order
  probe,            \* wait_for_bitcoind: where it is, its locals and what it did
  wire              \* a message being decoded: its bytes, the cursor and what the last decode gave

vars == <<pending, req_running, shutdown, error_count, first_error_time, bcli,
          calls, stoppers, anchorAlive, alive, now, fatal, spawnLog, cbLog,
          streakOn, streakStart, events, probe, wire>>

\* An anchored call brings its own anchor, named after the call.
Anchors == 1..MaxCalls

\* Exit outcomes of a child seen by waitpid: WEXITSTATUS values, or death by signal.
Signalled == -1
\* The value of an exit-status slot that was never written (or is absent).
NoStatus == -2
ExitOutcomes == {0, 1, Signalled}

\* What the child wrote, as far as the processing functions tell it apart:
\* "good" parses and has the member looked for, "nomember" parses as an object
\* without it (no feerate, no tx[txnum], no value / scriptPubKey), "bad" does
\* not parse (invalid JSON, non-numeric count, bad hex).
Outputs == {"good", "nomember", "bad"}

Ev(type, id, call, fn, val) ==
  [type |-> type, id |-> id, call |-> call, fn |-> fn, val |-> val]

\* The driver's state as one value, threaded through the handlers; a handler
\* starts with an empty record of what it did.
State ==
  [pending |-> pending, req_running |-> req_running, shutdown |-> shutdown,
   error_count |-> error_count, first_error_time |-> first_error_time,
   bcli |-> bcli, calls |-> calls, stoppers |-> stoppers,
   anchorAlive |-> anchorAlive, alive |-> alive, now |-> now,
   fatal |-> fatal, spawnLog |-> spawnLog, cbLog |-> cbLog,
   streakOn |-> streakOn, streakStart |-> streakStart, events |-> <<>>]

Log(s, e) == [s EXCEPT !.events = Append(@, e)]

\* new_bitcoind
InitState ==
  [pending |-> <<>>, req_running |-> FALSE, shutdown |-> FALSE,
   error_count |-> 0, first_error_time |-> 0, bcli |-> <<>>, calls |-> <<>>,
   stoppers |-> [a \in Anchors |-> {}], anchorAlive |-> {},
   alive |-> {}, now |-> 0, fatal |-> "", spawnLog |-> <<>>, cbLog |-> <<>>,
   streakOn |-> FALSE, streakStart |-> 0, events |-> <<>>]

\* fatal(...): the process aborts and its heap (requests, queue, call state)
\* is gone.  What the model keeps is the driver's scalar fields as they were
\* at the call, the children not reaped, and what the handler did up to the
\* call.  `why` names the call site.
Fatal(s, id, why) ==
  [InitState EXCEPT !.fatal = why, !.alive = s.alive,
                    !.req_running = s.req_running, !.shutdown = s.shutdown,
                    !.error_count = s.error_count,
                    !.first_error_time = s.first_error_time, !.now = s.now,
                    !.streakOn = s.streakOn, !.streakStart = s.streakStart,
                    !.events = Append(s.events, Ev("fatal", id, NULL, why, 0))]

InitDriver ==
  /\ pending = InitState.pending
  /\ req_running = InitState.req_running
  /\ shutdown = InitState.shutdown
  /\ error_count = InitState.error_count
  /\ first_error_time = InitState.first_error_time
  /\ bcli = InitState.bcli
  /\ calls = InitState.calls
  /\ stoppers = InitState.stoppers
  /\ anchorAlive = InitState.anchorAlive
  /\ alive = InitState.alive
  /\ now = InitState.now
  /\ fatal = InitState.fatal
  /\ spawnLog = InitState.spawnLog
  /\ cbLog = InitState.cbLog
  /\ streakOn = InitState.streakOn
  /\ streakStart = InitState.streakStart
  /\ events = InitState.events
  /\ probe = [pc |-> "idle", printed |-> FALSE, logged |-> 0, passes |-> 0,
              how |-> "none", status |-> NoStatus, slept |-> 0]

\* No message is being decoded.
NoWire ==
  [buf |-> <<>>, cursor |-> NULL, max |-> 0, decodes |-> 0, arg |-> <<>>,
   fn |-> "none", ret |-> <<>>, out |-> <<>>, outstate |-> "none"]

Init == InitDriver /\ wire = NoWire

\* ---------------------------------------------------------------- next_bcli
\* A slip: list_add in place of list_add_tail.
list_add_head(q, id) == <<id>> \o q

\* list_add_tail(&bitcoind->pending, &bcli->list)
list_add_tail(q, id) == Append(q, id)

\* list_pop(&bitcoind->pending, ...): the element popped
list_pop(q) == Head(q)

\* A slip: the req_running test left out.
never_busy(s) == FALSE

\* if (bitcoind->req_running) return;
next_bcli_busy(s) == s.req_running

next_bcli(s, execOk) ==
  IF s.fatal # "" \/ next_bcli_busy(s) \/ s.pending = <<>> THEN s
  ELSE LET id == list_pop(s.pending)
           p  == [s EXCEPT !.pending = SelectSeq(@, LAMBDA x : x # id)]
       IN IF ~execOk
          THEN Fatal(p, id, "exec")
          ELSE Log([p EXCEPT !.alive = @ \cup {id}, !.req_running = TRUE,
                             !.spawnLog = Append(@, id)],
                   Ev("spawn", id, p.bcli[id].call, "pipecmdarr", 0))

\* -------------------------------------------------------- start_bitcoin_cli
\* The struct bitcoin_cli built by start_bitcoin_cli.  stopper is the anchor
\* (ctx) the request's stopper hangs from, NULL without one; capture says
\* whether bcli->exitstatus was allocated (nonzero_exit_ok).
\* The rest is bookkeeping: anchor is ctx as given, cancelled says that the
\* anchor was freed before the request completed, reaped that waitpid returned
\* the child, ran lists the processing functions invoked on the request.
new_bcli(ctx, process, nonzero_exit_ok, call) ==
  [process |-> process, capture |-> nonzero_exit_ok, exitval |-> NoStatus,
   stopper |-> ctx, call |-> call, freed |-> FALSE,
   anchor |-> ctx, cancelled |-> FALSE, reaped |-> FALSE, ran |-> <<>>]

start_bitcoin_cli(s, ctx, process, nonzero_exit_ok, call, execOk) ==
  LET id == Len(s.bcli) + 1
      s1 == [s EXCEPT !.bcli = Append(@, new_bcli(ctx, process, nonzero_exit_ok, call)),
                      !.stoppers = IF ctx # NULL
                                   THEN [@ EXCEPT ![ctx] = @ \cup {id}] ELSE @]
      s2 == [s1 EXCEPT !.pending = list_add_tail(@, id)]
  IN next_bcli(Log(s2, Ev("enqueue", id, call, process, 0)), execOk)

\* --------------------------------------------------------- public operations
\* A public operation as called: op names it, n is num_estimates (estimate_fees
\* only), ctx the anchor handed to start_bitcoin_cli (the wrappers pass NULL).
NoOp == [op |-> "none", n |-> 0]

SingleStepOps == {"sendrawtx", "getrawblock", "getblockcount", "getblockhash"}

Ops ==
  {[op |-> o, n |-> 0] : o \in SingleStepOps \cup {"getoutput"}}
    \cup {[op |-> "estimate_fees", n |-> k] : k \in 1..MaxReqs}

\* The processing function and the nonzero_exit_ok flag each wrapper passes.
ProcessOf(op) ==
  CASE op = "sendrawtx"     -> "process_sendrawtx"
    [] op = "getrawblock"   -> "process_rawblock"
    [] op = "getblockcount" -> "process_getblockcount"
    [] op = "getblockhash"  -> "process_getblockhash"
    [] op = "getoutput"     -> "process_getblockhash_for_txout"
    [] op = "estimate_fees" -> "process_estimatefee"

NonzeroExitOk(process) ==
  process \in {"process_sendrawtx", "process_getblockhash",
               "process_getblockhash_for_txout", "process_gettxout"}

\* The child invocations one call can need (its share of MaxReqs).
Need(o) ==
  CASE o.op = "estimate_fees" -> IF o.n = 0 THEN 1 ELSE o.n
    [] o.op = "getoutput"     -> 3
    [] o.op = "none"          -> 0
    [] OTHER                  -> 1

RECURSIVE Reserved(_)
Reserved(cs) == IF cs = <<>> THEN 0 ELSE cs[1].need + Reserved(Tail(cs))

Fits(s, o) ==
  /\ Len(s.calls) < MaxCalls
  /\ Reserved(s.calls) + Need(o) <= MaxReqs

\* An element of satoshi_per_kw not written yet (tal_arr does not initialise).
Unwritten == -3

\* What an access beyond the end of efee's arrays does in this run: the
\* process dies ("segv"), or it goes on with whatever was there ("garbage").
OobOutcomes == {"segv", "garbage"}

OobOf(o) == IF "oob" \in DOMAIN o THEN o.oob ELSE "garbage"

\* struct estimatefee (i, satoshi_per_kw = tal_arr(efee, u32, num_estimates))
\* or struct get_output as the wrapper sets it up, with the callback's count.
new_call(o, ctx) ==
  [op |-> o.op, n |-> o.n, i |-> 0, sat |-> [j \in 1..o.n |-> Unwritten],
   ctx |-> ctx, need |-> Need(o), fired |-> 0, oob |-> OobOf(o)]

\* do_one_estimatefee: reads blocks[i] and estmode[i], arrays of
\* num_estimates elements, and starts estimatesmartfee.
do_one_estimatefee(s, call, execOk) ==
  LET c == s.calls[call] IN
  IF c.i >= c.n /\ c.oob = "segv" THEN Fatal(s, NULL, "segv")
  ELSE start_bitcoin_cli(s, NULL, "process_estimatefee", FALSE, call, execOk)

\* bitcoind_estimate_fees_, bitcoind_sendrawtx_, bitcoind_getrawblock_,
\* bitcoind_getblockcount_, bitcoind_getoutput_, bitcoind_getblockhash_
PublicOp(s, o, ctx, execOk) ==
  LET call == Len(s.calls) + 1
      s1 == [s EXCEPT !.calls = Append(@, new_call(o, ctx))]
      s2 == Log(s1, Ev("call", NULL, call, o.op, o.n))
  IN IF o.op = "estimate_fees"
     THEN do_one_estimatefee(s2, call, execOk)
     ELSE start_bitcoin_cli(s2, ctx, ProcessOf(o.op),
                            NonzeroExitOk(ProcessOf(o.op)), call, execOk)

\* The user's completion callback cb(bitcoind, ..., arg).  It may itself call
\* one public operation (cbEnq), which runs to completion inside the callback.
UserCb(s, id, val, cbEnq, execOk) ==
  LET call == s.bcli[id].call
      s1 == Log([s EXCEPT !.calls[call].fired = @ + 1,
                          !.cbLog = Append(@, [call |-> call, id |-> id])],
                Ev("cb", id, call, s.calls[call].op, val))
  IN IF cbEnq.op = "none" THEN s1 ELSE PublicOp(s1, cbEnq, NULL, execOk)

\* ------------------------------------------------------ processing functions
\* process_estimatefee: extract_feerate is fatal on unparsable output, gives 0
\* without a feerate member; the caller's cb fires after the last target.
process_estimatefee(s, id, out, cbEnq, execOk) ==
  LET call == s.bcli[id].call
      c    == s.calls[call]
      rate == IF out = "good" THEN 1 ELSE 0
      s1   == [s EXCEPT !.calls[call].sat =
                          IF c.i < c.n THEN [@ EXCEPT ![c.i + 1] = rate] ELSE @,
                        !.calls[call].i = @ + 1]
  IN IF out = "bad" THEN Fatal(s, id, "parse")
     ELSE IF c.i >= c.n /\ c.oob = "segv" THEN Fatal(s, id, "segv")
     ELSE IF s1.calls[call].i = s1.calls[call].n
          THEN UserCb(s1, id, Len(s1.calls[call].sat), cbEnq, execOk)
          ELSE do_one_estimatefee(s1, call, execOk)

\* process_sendrawtx: cb(bitcoind, *bcli->exitstatus, msg, arg)
process_sendrawtx(s, id, out, cbEnq, execOk) ==
  UserCb(s, id, s.bcli[id].exitval, cbEnq, execOk)

\* process_rawblock: fatal unless the output is a block in hex
process_rawblock(s, id, out, cbEnq, execOk) ==
  IF out # "good" THEN Fatal(s, id, "parse")
  ELSE UserCb(s, id, 1, cbEnq, execOk)

\* process_getblockcount: fatal unless the output is a number and a newline
process_getblockcount(s, id, out, cbEnq, execOk) ==
  IF out # "good" THEN Fatal(s, id, "parse")
  ELSE UserCb(s, id, 1, cbEnq, execOk)

\* process_getblockhash: cb(NULL) on a nonzero exit, fatal on a bad block id
process_getblockhash(s, id, out, cbEnq, execOk) ==
  IF s.bcli[id].exitval # 0 THEN UserCb(s, id, NULL, cbEnq, execOk)
  ELSE IF out # "good" THEN Fatal(s, id, "parse")
  ELSE UserCb(s, id, 1, cbEnq, execOk)

\* A slip: a gettxout answer without value or scriptPubKey taken for a
\* missing output.
process_gettxout_lenient(s, id, out, cbEnq, execOk) ==
  IF s.bcli[id].exitval # 0 \/ out = "nomember" THEN UserCb(s, id, NULL, cbEnq, execOk)
  ELSE IF out # "good" THEN Fatal(s, id, "parse")
  ELSE UserCb(s, id, 1, cbEnq, execOk)

\* process_gettxout: cb(NULL) on a nonzero exit; a zero exit must carry value
\* and scriptPubKey.hex
process_gettxout(s, id, out, cbEnq, execOk) ==
  IF s.bcli[id].exitval # 0 THEN UserCb(s, id, NULL, cbEnq, execOk)
  ELSE IF out # "good" THEN Fatal(s, id, "parse")
  ELSE UserCb(s, id, 1, cbEnq, execOk)

\* process_getblock: fatal on unparsable output, cb(NULL) when tx[txnum] is
\* absent, otherwise gettxout is started
process_getblock(s, id, out, cbEnq, execOk) ==
  IF out = "bad" THEN Fatal(s, id, "parse")
  ELSE IF out = "nomember" THEN UserCb(s, id, NULL, cbEnq, execOk)
  ELSE start_bitcoin_cli(s, NULL, "process_gettxout", TRUE, s.bcli[id].call, execOk)

\* process_getblockhash_for_txout: cb(NULL) on a nonzero exit, otherwise
\* getblock is started on the output
process_getblockhash_for_txout(s, id, out, cbEnq, execOk) ==
  IF s.bcli[id].exitval # 0 THEN UserCb(s, id, NULL, cbEnq, execOk)
  ELSE start_bitcoin_cli(s, NULL, "process_getblock", FALSE, s.bcli[id].call, execOk)

\* bcli->process(bcli)
Process(s, id, out, cbEnq, execOk) ==
  LET fn == s.bcli[id].process IN
  CASE fn = "process_donothing"     -> s
    [] fn = "process_estimatefee"   -> process_estimatefee(s, id, out, cbEnq, execOk)
    [] fn = "process_sendrawtx"     -> process_sendrawtx(s, id, out, cbEnq, execOk)
    [] fn = "process_rawblock"      -> process_rawblock(s, id, out, cbEnq, execOk)
    [] fn = "process_getblockcount" -> process_getblockcount(s, id, out, cbEnq, execOk)
    [] fn = "process_getblockhash"  -> process_getblockhash(s, id, out, cbEnq, execOk)
    [] fn = "process_gettxout"      -> process_gettxout(s, id, out, cbEnq, execOk)
    [] fn = "process_getblock"      -> process_getblock(s, id, out, cbEnq, execOk)
    [] fn = "process_getblockhash_for_txout"
                                    -> process_getblockhash_for_txout(s, id, out, cbEnq, execOk)

\* Whether process can reach a user callback on this exit value and output
\* (the only place a nested public operation can be called from).
ReachesCb(s, id, out) ==
  LET b == s.bcli[id] c == s.calls[b.call] IN
  CASE b.process = "process_donothing"   -> FALSE
    [] b.process = "process_estimatefee" -> out # "bad" /\ c.i + 1 = c.n
    [] b.process = "process_sendrawtx"   -> TRUE
    [] b.process \in {"process_rawblock", "process_getblockcount"} -> out = "good"
    [] b.process \in {"process_getblockhash", "process_gettxout"}
                                         -> b.exitval # 0 \/ out = "good"
    [] b.process = "process_getblock"    -> out = "nomember"
    [] b.process = "process_getblockhash_for_txout" -> b.exitval # 0

\* ------------------------------------------------------------- cancellation
\* A slip: the stopper's destructor left out.
stop_process_noop(s, id) == s

\* stop_process_bcli: the stopper is freed first
stop_process_bcli(s, id) ==
  [s EXCEPT !.bcli[id].process = "process_donothing", !.bcli[id].stopper = NULL]

RECURSIVE StopAll(_, _)
StopAll(s, ids) ==
  IF ids = {} THEN s
  ELSE LET id == CHOOSE x \in ids : TRUE
       IN StopAll(stop_process_bcli(s, id), ids \ {id})

\* A slip: the request freed with its stopper left on the anchor.
tal_free_keep_stopper(s, id) ==
  [s EXCEPT !.bcli[id] = [@ EXCEPT !.process = "freed", !.capture = FALSE,
                                   !.exitval = NoStatus, !.freed = TRUE]]

\* remove_stopper, then the request is gone: tal_free(bcli)
tal_free_bcli(s, id) ==
  LET a  == s.bcli[id].stopper
      s1 == IF a = NULL THEN s
            ELSE stop_process_bcli([s EXCEPT !.stoppers[a] = @ \ {id}], id)
  IN [s1 EXCEPT !.bcli[id] = [@ EXCEPT !.process = "freed", !.capture = FALSE,
                                       !.exitval = NoStatus, !.freed = TRUE]]

\* ------------------------------------------------------------ bcli_finished
\* A slip: first_error_time stamped at every error.
exit_status_policy_restamp(s, id, status) ==
  IF ~s.bcli[id].capture
  THEN IF status # 0
       THEN LET s1 == [s EXCEPT !.first_error_time = s.now]
            IN IF s1.now - s1.first_error_time > ErrorWindowSec
               THEN Fatal(s1, id, "streak")
               ELSE [s1 EXCEPT !.error_count = @ + 1]
       ELSE s
  ELSE [s EXCEPT !.bcli[id].exitval = status]

\* A slip: the capture slot filled, and the error counted all the same.
exit_status_policy_counting(s, id, status) ==
  LET s0 == IF s.bcli[id].capture THEN [s EXCEPT !.bcli[id].exitval = status] ELSE s
  IN IF status # 0
     THEN LET s1 == IF s0.error_count = 0
                    THEN [s0 EXCEPT !.first_error_time = s0.now] ELSE s0
          IN IF s1.now - s1.first_error_time > ErrorWindowSec
             THEN Fatal(s1, id, "streak")
             ELSE [s1 EXCEPT !.error_count = @ + 1]
     ELSE s0

\* Lines 120-145: the exit status goes to the capture slot if there is one;
\* otherwise a nonzero exit counts against the 60-second window.
exit_status_policy(s, id, status) ==
  IF ~s.bcli[id].capture
  THEN IF status # 0
       THEN LET s1 == IF s.error_count = 0
                      THEN [s EXCEPT !.first_error_time = s.now] ELSE s
            IN IF s1.now - s1.first_error_time > ErrorWindowSec
               THEN Fatal(s1, id, "streak")
               ELSE [s1 EXCEPT !.error_count = @ + 1]
       ELSE s
  ELSE [s EXCEPT !.bcli[id].exitval = status]

\* A slip: the reset left out.
no_reset(s, status) == s

\* Lines 147-148
reset_on_success(s, status) ==
  IF status = 0 THEN [s EXCEPT !.error_count = 0] ELSE s

\* A slip: a request whose child failed is dropped unprocessed.
drop_on_error(s, id, out, cbEnq, execOk) ==
  IF s.error_count > 0 THEN s
  ELSE Process(s, id, out, cbEnq, execOk)

\* Lines 156-158: the processing function inside the database transaction.
\* What the child wrote (bcli->output, complete by now) is noted first.
run_process(s, id, out, cbEnq, execOk) ==
  LET b  == s.bcli[id]
      s1 == Log(Log(s, Ev("output", id, b.call, out, 0)),
                Ev("db_begin", id, b.call, "db_begin_transaction", 0))
      s2 == Process(Log([s1 EXCEPT !.bcli[id].ran = Append(@, b.process)],
                        Ev("process", id, b.call, b.process, b.exitval)),
                    id, out, cbEnq, execOk)
  IN IF s2.fatal # "" THEN s2
     ELSE Log(s2, Ev("db_commit", id, b.call, "db_commit_transaction", 0))

\* A slip: the shutdown test moved above the waitpid.
waitpid_unless_shutdown(s, id, status) ==
  IF s.shutdown THEN s
  ELSE Log([s EXCEPT !.alive = @ \ {id}, !.bcli[id].reaped = TRUE],
           Ev("reap", id, s.bcli[id].call, "waitpid", status))

\* A slip: req_running left set.
keep_req_running(s) == s

\* Line 150: bitcoind->req_running = false
clear_req_running(s) == [s EXCEPT !.req_running = FALSE]

\* Line 110: ret = waitpid(bcli->pid, &status, 0)
waitpid(s, id, status) ==
  Log([s EXCEPT !.alive = @ \ {id}, !.bcli[id].reaped = TRUE],
      Ev("reap", id, s.bcli[id].call, "waitpid", status))

\* A slip: the shutdown test left out.
never_shutdown(s) == FALSE

\* Line 153: if (bitcoind->shutdown) return;
freed_for_shutdown(s) == s.shutdown

bcli_finished(s, id, status, out, cbEnq, execOk) ==
  LET s0 == waitpid(s, id, status)
      s1 == exit_status_policy(s0, id, status)
      s2 == clear_req_running(reset_on_success(s1, status))
      s3 == run_process(s2, id, out, cbEnq, execOk)
  IN IF status = Signalled THEN Fatal(s0, id, "signal")
     ELSE IF s1.fatal # "" THEN s1
     ELSE IF freed_for_shutdown(s2) THEN s2
     ELSE IF s3.fatal # "" THEN s3
     ELSE next_bcli(tal_free_bcli(s3, id), execOk)

\* ----------------------------------------------------------------- actions
Driver(s) ==
  /\ pending' = s.pending
  /\ req_running' = s.req_running
  /\ shutdown' = s.shutdown
  /\ error_count' = s.error_count
  /\ first_error_time' = s.first_error_time
  /\ bcli' = s.bcli
  /\ calls' = s.calls
  /\ stoppers' = s.stoppers
  /\ anchorAlive' = s.anchorAlive
  /\ alive' = s.alive
  /\ now' = s.now
  /\ fatal' = s.fatal
  /\ spawnLog' = s.spawnLog
  /\ cbLog' = s.cbLog
  /\ streakOn' = s.streakOn
  /\ streakStart' = s.streakStart
  /\ events' = s.events

Install(s) == Driver(s) /\ probe' = probe /\ wire' = wire

\* A caller calls one of the public operations `ops`.  These callers do not
\* call into a driver whose destructor has run.
CallOf(ops) ==
  /\ fatal = ""
  /\ ~shutdown
  /\ \E o \in ops, execOk \in BOOLEAN :
       /\ Fits(State, o)
       /\ Install(PublicOp(State, o, NULL, execOk))

\* A caller pins a single-step request to a fresh anchor: start_bitcoin_cli
\* with a non-NULL ctx.
CallAnchoredOf(ops) ==
  /\ fatal = ""
  /\ ~shutdown
  /\ \E o \in ops, execOk \in BOOLEAN :
       LET a == Len(calls) + 1
       IN /\ o.op \in SingleStepOps
          /\ Fits(State, o)
          /\ Install(PublicOp([State EXCEPT !.anchorAlive = @ \cup {a}], o, a, execOk))

\* The exits seen so far, for the record: a non-capture nonzero exit opens a
\* streak unless one is open, a zero exit closes it.
NoteExit(pre, id, status, post) ==
  IF status = 0 THEN [post EXCEPT !.streakOn = FALSE]
  ELSE IF status # Signalled /\ ~pre.bcli[id].capture /\ ~pre.streakOn
       THEN [post EXCEPT !.streakOn = TRUE, !.streakStart = pre.now]
       ELSE post

\* The in-flight child exits and closes its output: io_set_finish's callback
\* runs.  A user callback reached in it may call one of `cbOps`.
BcliFinishedOf(cbOps) ==
  /\ fatal = ""
  /\ \E id \in alive, status \in ExitOutcomes, out \in Outputs,
        cbEnq \in cbOps \cup {NoOp}, execOk \in BOOLEAN :
       /\ cbEnq.op # "none" =>
            /\ status # Signalled
            /\ ~shutdown
            /\ Fits(State, cbEnq)
            /\ exit_status_policy(State, id, status).fatal = ""
            /\ ReachesCb(exit_status_policy(State, id, status), id, out)
       /\ Install(NoteExit(State, id, status,
                           bcli_finished(State, id, status, out, cbEnq, execOk)))

\* The caller frees an anchor: every stopper hanging from it is destroyed.
DestroyAnchor ==
  /\ fatal = ""
  /\ \E a \in anchorAlive :
       LET s == StopAll(State, stoppers[a])
           marked == [id \in DOMAIN s.bcli |->
                        IF s.bcli[id].anchor = a /\ ~s.bcli[id].freed
                        THEN [s.bcli[id] EXCEPT !.cancelled = TRUE]
                        ELSE s.bcli[id]]
       IN Install([s EXCEPT !.stoppers[a] = {}, !.anchorAlive = @ \ {a},
                            !.bcli = marked])

\* destroy_bitcoind
DestroyBitcoind ==
  /\ fatal = ""
  /\ ~shutdown
  /\ Install([State EXCEPT !.shutdown = TRUE])

\* Monotonic time passes.
Tick ==
  /\ fatal = ""
  /\ \E d \in {ErrorWindowSec, ErrorWindowSec + 1} :
       /\ now + d <= MaxTime
       /\ Install([State EXCEPT !.now = @ + d])

\* ------------------------------------------------------------ specifications
\* The driver with every public operation, anchors and shutdown; the clock
\* stands still, so no error streak outlasts the window.
Call == CallOf(Ops)

CallAnchored == CallAnchoredOf(Ops)

BcliFinished == BcliFinishedOf(Ops)

Next ==
  \/ Call
  \/ CallAnchored
  \/ BcliFinished
  \/ DestroyAnchor
  \/ DestroyBitcoind

Spec == Init /\ [][Next]_vars

\* The driver under a running clock, with callers that call once at a time
\* from outside the callbacks.
StreakOps ==
  {[op |-> o, n |-> 0] : o \in {"getblockcount", "sendrawtx", "getblockhash", "getoutput"}}

StreakCall == CallOf(StreakOps)

StreakCallAnchored == CallAnchoredOf(StreakOps)

StreakFinished == BcliFinishedOf({})

NextStreak ==
  \/ StreakCall
  \/ StreakCallAnchored
  \/ StreakFinished
  \/ DestroyAnchor
  \/ DestroyBitcoind
  \/ Tick

SpecStreak == Init /\ [][NextStreak]_vars

\* Every spawned child eventually exits and closes its output, so the io
\* loop eventually runs bcli_finished on it.
FairOps == {[op |-> o, n |-> 0] : o \in {"getblockcount", "sendrawtx", "getoutput"}}

FairCall == CallOf(FairOps)

FairCallAnchored == CallAnchoredOf(FairOps)

FairFinished == BcliFinishedOf({})

NextFair ==
  \/ FairCall
  \/ FairCallAnchored
  \/ FairFinished
  \/ DestroyAnchor
  \/ DestroyBitcoind

FairSpec == Init /\ [][NextFair]_vars /\ WF_vars(FairFinished)

\* ------------------------------------------------------------------- claims
EvTypes == {events[i].type : i \in 1..Len(events)}

\* The handler that ran last was bcli_finished.
InFinished == "reap" \in EvTypes

\* C1: in every reachable state at most one child spawned by next_bcli is
\* alive (spawned and not yet reaped).
C1_AtMostOneChild == Cardinality(alive) <= 1

\* A child is in flight while a request enqueued from inside bcli_finished
\* waits behind it.
C1_Witness ==
  /\ Cardinality(alive) = 1
  /\ pending # <<>>
  /\ InFinished
  /\ "enqueue" \in EvTypes

\* C2: the pending queue is FIFO: requests are numbered as start_bitcoin_cli
\* enqueues them, and the children are spawned in that order with none
\* skipped, whoever enqueued them.
C2_FifoSpawnOrder == \A i \in 1..Len(spawnLog) : spawnLog[i] = i

\* bcli_finished enqueued a request at the tail while an older one was
\* pending, and dispatched the older one.
C2_Witness ==
  /\ InFinished
  /\ \E i, j \in 1..Len(events) :
       /\ events[i].type = "enqueue"
       /\ events[j].type = "spawn"
       /\ i < j
       /\ events[j].id < events[i].id

\* C3 as stated: user callbacks fire in the order of the calls of the public
\* operations.
C3_CbInCallOrder ==
  \A i, j \in 1..Len(cbLog) : i < j => cbLog[i].call < cbLog[j].call

\* C3 as amended: user callbacks fire in the enqueue order of the child
\* invocations that complete them; a call that needs a single child
\* invocation fires before every call made after it.
C3_CbInRequestOrder ==
  /\ \A i, j \in 1..Len(cbLog) : i < j => cbLog[i].id < cbLog[j].id
  /\ \A i, j \in 1..Len(cbLog) :
       (i < j /\ calls[cbLog[j].call].need = 1) => cbLog[i].call < cbLog[j].call

\* The callback of a multi-step call fired after that of a later call.
C3_Witness ==
  \E i, j \in 1..Len(cbLog) :
    /\ i < j
    /\ cbLog[i].call > cbLog[j].call
    /\ cbLog[i].id < cbLog[j].id

\* C4: a request's processing function runs at most once, always between
\* db_begin_transaction and db_commit_transaction, and it is the real one only
\* if the request's anchor had not been freed before bcli_finished handled it.
Begun(i) == Cardinality({k \in 1..(i - 1) : events[k].type = "db_begin"})
Committed(i) == Cardinality({k \in 1..(i - 1) : events[k].type = "db_commit"})

C4_ProcessOnceInBracket ==
  /\ \A id \in DOMAIN bcli :
       /\ Len(bcli[id].ran) <= 1
       /\ (bcli[id].ran # <<>> /\ bcli[id].ran[1] # "process_donothing")
            => ~bcli[id].cancelled
  /\ \A i \in 1..Len(events) :
       events[i].type \in {"process", "cb"} => Begun(i) = Committed(i) + 1
  /\ (InFinished /\ fatal = "") => Begun(Len(events) + 1) = Committed(Len(events) + 1)

\* Of two anchored requests, the one whose anchor lived ran its processing
\* function and the one whose anchor was freed first ran the no-op.
C4_Witness ==
  \E a, b \in DOMAIN bcli :
    /\ bcli[a].anchor # NULL /\ ~bcli[a].cancelled
    /\ bcli[a].ran # <<>> /\ bcli[a].ran[1] # "process_donothing"
    /\ bcli[b].cancelled /\ bcli[b].ran = <<"process_donothing">>
    /\ "db_commit" \in EvTypes

\* C5: every child spawned by next_bcli is eventually reaped, given that it
\* eventually exits: whether the anchor was freed, the driver is shutting
\* down or the exit status is nonzero.
C5_EveryChildReaped == \A id \in 1..MaxReqs : []<>(id \notin alive)

\* A child whose anchor was freed was reaped with a nonzero status while the
\* driver was shutting down.
C5_Witness ==
  /\ shutdown
  /\ fatal = ""
  /\ alive = {}
  /\ \E i \in 1..Len(events) :
       /\ events[i].type = "reap"
       /\ events[i].val # 0
       /\ bcli[events[i].id].cancelled
       /\ bcli[events[i].id].reaped

\* The step frees an anchor (and the process lives on).
AnchorFreed ==
  /\ fatal' = ""
  /\ anchorAlive' # anchorAlive
  /\ anchorAlive' \subseteq anchorAlive

Cancelled(id) == id \in DOMAIN bcli /\ bcli[id].cancelled

\* C6: freeing a request's anchor before the request completes leaves the
\* queue and the running child alone; the request is still spawned and
\* reaped (unless the driver shuts down or aborts first), and what runs on it
\* is the no-op, never its processing function.
C6_CancelSilencesOnly ==
  /\ [][AnchorFreed => /\ pending' = pending
                       /\ alive' = alive
                       /\ req_running' = req_running
                       /\ spawnLog' = spawnLog]_vars
  /\ [](\A id \in DOMAIN bcli :
          bcli[id].cancelled =>
            /\ \A k \in 1..Len(bcli[id].ran) : bcli[id].ran[k] = "process_donothing"
            /\ bcli[id].freed => (bcli[id].reaped /\ bcli[id].ran # <<>>))
  /\ \A id \in 1..MaxReqs :
       []<>(\/ ~Cancelled(id)
            \/ (bcli[id].reaped /\ bcli[id].ran = <<"process_donothing">>)
            \/ shutdown
            \/ fatal # "")

\* A request whose anchor was freed went through spawn, reap and the no-op.
C6_Witness ==
  \E id \in DOMAIN bcli :
    /\ bcli[id].cancelled
    /\ id \in {spawnLog[i] : i \in 1..Len(spawnLog)}
    /\ bcli[id].reaped
    /\ bcli[id].freed
    /\ bcli[id].ran = <<"process_donothing">>

Anchorless(id) == id \in DOMAIN bcli /\ bcli[id].anchor = NULL

\* C7 as stated: every request enqueued without an anchor eventually has its
\* processing function invoked, given that every spawned child exits.
C7_AnchorlessAlwaysRuns ==
  \A id \in 1..MaxReqs : []<>(~Anchorless(id) \/ bcli[id].ran # <<>>)

\* C7 as amended: ... unless the driver is shut down or aborts first.
C7_AnchorlessRunsUnlessStopped ==
  \A id \in 1..MaxReqs :
    []<>(~Anchorless(id) \/ bcli[id].ran # <<>> \/ shutdown \/ fatal # "")

\* A request without an anchor waited in the queue and then ran its
\* processing function.
C7_Witness ==
  /\ ~shutdown
  /\ \E id \in DOMAIN bcli :
       /\ id > 1
       /\ bcli[id].anchor = NULL
       /\ bcli[id].ran # <<>>
       /\ bcli[id].ran[1] # "process_donothing"

\* The step is a run of bcli_finished: on request Rid, whose child ended
\* with Rstatus.
FinishedStep == events' # <<>> /\ events'[1].type = "reap"
Rid == events'[1].id
Rstatus == events'[1].val

\* When the streak the exit belongs to began: with the exit itself if none
\* was open.
StreakBegan == IF streakOn THEN streakStart ELSE now

\* C8: without exit-status capture, the exit-status handling of bcli_finished
\* is fatal exactly when the child exited nonzero more than 60 seconds after
\* the first nonzero exit of the streak; a nonzero exit within the window
\* adds one to error_count.
C8_FatalIffStreakTooOld ==
  [][(FinishedStep /\ Rstatus # Signalled /\ ~bcli[Rid].capture) =>
       /\ (fatal' = "streak") <=>
            (Rstatus # 0 /\ now - StreakBegan > ErrorWindowSec)
       /\ (Rstatus # 0 /\ now - StreakBegan <= ErrorWindowSec) =>
            error_count' = error_count + 1]_vars

\* The driver aborted on a nonzero exit that came more than 60 seconds
\* after the streak's first, other errors having been tolerated.
C8_Witness ==
  /\ fatal = "streak"
  /\ error_count >= 1
  /\ now - first_error_time > ErrorWindowSec

\* C9: after bcli_finished has handled a zero exit, error_count is 0,
\* whatever the request; and the next non-capture nonzero exit stamps
\* first_error_time afresh.
C9_ZeroExitResets ==
  [][FinishedStep =>
       /\ Rstatus = 0 => error_count' = 0
       /\ (Rstatus \notin {0, Signalled} /\ ~bcli[Rid].capture /\ ~streakOn) =>
            (first_error_time' = now /\ error_count' = 1 /\ fatal' # "streak")]_vars

\* A zero exit was handled during shutdown after an error streak that began
\* later than time 0: the count is back to 0.
C9_Witness ==
  /\ shutdown
  /\ fatal = ""
  /\ events # <<>>
  /\ events[1].type = "reap"
  /\ events[1].val = 0
  /\ first_error_time > 0
  /\ error_count = 0

\* C10: a nonzero exit of a request with exit-status capture is not fatal,
\* reaches the processing function unmodified, and leaves error_count and
\* first_error_time alone.
C10_CaptureLeavesStreak ==
  [][(FinishedStep /\ Rstatus \notin {0, Signalled} /\ bcli[Rid].capture) =>
       /\ fatal' \notin {"streak", "signal", "parse"}
       /\ error_count' = error_count
       /\ first_error_time' = first_error_time
       /\ \A i \in 1..Len(events') :
            events'[i].type = "process" => events'[i].val = Rstatus
       /\ (fatal' = "" /\ ~bcli'[Rid].freed) => bcli'[Rid].exitval = Rstatus]_vars

\* A capture request's nonzero exit reached its processing function and the
\* caller while an error streak was open, and the streak stayed as it was.
C10_Witness ==
  /\ fatal = ""
  /\ error_count >= 1
  /\ \E i, j \in 1..Len(events) :
       /\ events[1].type = "reap" /\ events[1].val = 1
       /\ events[i].type = "process" /\ events[i].val = 1
       /\ events[i].fn \in {"process_sendrawtx", "process_getblockhash",
                            "process_getblockhash_for_txout", "process_gettxout"}
       /\ events[j].type = "cb"

\* The steps a run of bcli_finished took beyond reaping the child.
Suppressed == {"db_begin", "process", "cb", "db_commit", "enqueue", "spawn"}

\* C11: once shutdown is set, bcli_finished reaps the in-flight child and
\* that is all: no database transaction, no processing function, no user
\* callback, no dispatch; the pending queue keeps its contents.
C11_ShutdownSuppresses ==
  [][(FinishedStep /\ shutdown) =>
       /\ Rid \notin alive'
       /\ \A i \in 1..Len(events') : events'[i].type \notin Suppressed
       /\ fatal' = "" => /\ pending' = pending
                         /\ spawnLog' = spawnLog
                         /\ cbLog' = cbLog
                         /\ bcli'[Rid].ran = <<>>
                         /\ ~req_running']_vars

\* The in-flight child of a driver shutting down was reaped after a zero
\* exit while another request was pending: the request stays pending and no
\* child is alive.
C11_Witness ==
  /\ shutdown
  /\ fatal = ""
  /\ events # <<>>
  /\ events[1].type = "reap"
  /\ events[1].val = 0
  /\ Len(events) = 1
  /\ pending # <<>>
  /\ alive = {}
  /\ ~req_running

\* C12 as stated: while the driver is shutting down, whatever the exit status
\* of the in-flight child, bcli_finished is not fatal and fires no callback.
C12_ShutdownNeverFatal ==
  [][(FinishedStep /\ shutdown /\ Rstatus # Signalled) =>
       /\ fatal' = ""
       /\ \A i \in 1..Len(events') : events'[i].type # "cb"]_vars

\* C12, what the code does: during shutdown no callback fires, and the only
\* fatal outcome of an exited child is the error streak older than 60 seconds.
C12_ShutdownFatalOnlyByStreak ==
  [][(FinishedStep /\ shutdown /\ Rstatus # Signalled) =>
       /\ \A i \in 1..Len(events') : events'[i].type # "cb"
       /\ fatal' \in {"", "streak"}
       /\ (fatal' = "streak") <=>
            (Rstatus # 0 /\ ~bcli[Rid].capture /\ now - StreakBegan > ErrorWindowSec)]_vars

\* The driver aborted on the exit of the in-flight child while shutting down.
C12_Witness ==
  /\ shutdown
  /\ fatal = "streak"
  /\ alive = {}

\* ------------------------------------------------------- fee estimation alone
\* Callers of bitcoind_estimate_fees_ with any num_estimates, 0 included.
FeeOps ==
  {[op |-> "estimate_fees", n |-> 0, oob |-> u] : u \in OobOutcomes}
    \cup {[op |-> "estimate_fees", n |-> k, oob |-> "garbage"] : k \in 1..MaxReqs}

FeesCall == CallOf(FeeOps)

\* The in-flight estimatesmartfee exits; a completion that starts the next
\* one waits while MaxReqs requests exist.
FeesFinished ==
  /\ fatal = ""
  /\ \A id \in alive :
       calls[bcli[id].call].i + 1 # calls[bcli[id].call].n => Len(bcli) < MaxReqs
  /\ BcliFinishedOf({})

NextFees ==
  \/ FeesCall
  \/ FeesFinished

SpecFees == Init /\ [][NextFees]_vars /\ WF_vars(FeesFinished)

\* The requests start_bitcoin_cli made for call c so far.
ReqsOf(c) == {id \in DOMAIN bcli : bcli[id].call = c}

\* For the estimate_fees call c: no more invocations than targets, one at a
\* time, at most one callback, and none before the last target was processed.
FeesInOrder(c) ==
  /\ Cardinality(ReqsOf(c)) <= calls[c].n
  /\ Cardinality({id \in ReqsOf(c) : ~bcli[id].freed}) <= 1
  /\ \A id \in ReqsOf(c) : bcli[id].freed => bcli[id].ran = <<"process_estimatefee">>
  /\ Cardinality(ReqsOf(c)) = Cardinality({id \in ReqsOf(c) : bcli[id].freed})
                                + (IF calls[c].fired = 0 THEN 1 ELSE 0)
  /\ calls[c].i = Cardinality({id \in ReqsOf(c) : bcli[id].freed})
  /\ calls[c].fired <= 1
  /\ calls[c].fired = 1 =>
       /\ Cardinality(ReqsOf(c)) = calls[c].n
       /\ calls[c].i = calls[c].n
       /\ \A j \in 1..calls[c].n : calls[c].sat[j] # Unwritten

\* The callbacks a run of bcli_finished fired came with an array of as many
\* entries as the call had targets, after the last target.
FeesCbStep ==
  FinishedStep =>
    \A i \in 1..Len(events') :
      events'[i].type = "cb" =>
        /\ events'[i].val = calls[events'[i].call].n
        /\ calls[events'[i].call].i + 1 = calls[events'[i].call].n
        /\ calls[events'[i].call].fired = 0

\* C13 for the calls with at least one target, as long as the process lives;
\* the callbacks come once no call without targets holds the queue.
C13_FeesExactlyKPositive ==
  /\ [](fatal = "" => \A c \in DOMAIN calls : calls[c].n >= 1 => FeesInOrder(c))
  /\ [][FeesCbStep]_vars
  /\ []<>(\/ fatal # ""
          \/ \E c \in DOMAIN calls : calls[c].n = 0
          \/ \A c \in DOMAIN calls : calls[c].fired = 1)

\* Two estimate_fees calls of two and one targets interleaved, and both
\* callbacks have fired.
C13_Witness ==
  /\ fatal = ""
  /\ Len(calls) = 2
  /\ calls[1].n = 2
  /\ calls[2].n = 1
  /\ calls[1].fired = 1
  /\ calls[2].fired = 1
  /\ Len(bcli) = 3

\* C13 as stated, the part that can be seen in a state: for every
\* estimate_fees call, whatever its number of targets k, no more than k
\* estimatesmartfee invocations are made, one after the other, and the
\* callback fires at most once, after the k-th, with k entries written.
C13_FeesNeverMoreThanK ==
  fatal = "" => \A c \in DOMAIN calls : FeesInOrder(c)

\* ---------------------------------------------------------- wait_for_bitcoind
\* How the echo child of one pass can end: WEXITSTATUS 0, the warm-up status,
\* another status, or death by signal.
ProbeExits == {0, 1, RpcInWarmupExit, Signalled}

\* A slip: the message logged at every retry.
print_always(p) == [p EXCEPT !.logged = @ + 1]

\* if (!printed) { log_unusual(...); printed = true; }
print_once(p) ==
  IF ~p.printed THEN [p EXCEPT !.logged = @ + 1, !.printed = TRUE] ELSE p

\* One pass of the for (;;) loop of wait_for_bitcoind: pipecmdarr, grab_fd,
\* waitpid, and what the status leads to.  how says where the pass ended.
wait_for_bitcoind_pass(p, execOk, readOk, status) ==
  LET q == [p EXCEPT !.passes = @ + 1, !.status = NoStatus] IN
  IF ~execOk THEN [q EXCEPT !.pc = "fatal", !.how = "probe_exec"]
  ELSE IF ~readOk THEN [q EXCEPT !.pc = "fatal", !.how = "probe_read"]
  ELSE IF status = Signalled THEN [q EXCEPT !.pc = "fatal", !.how = "probe_signal"]
  ELSE IF status = 0
       THEN [q EXCEPT !.pc = "returned", !.how = "probe_exit", !.status = status]
  ELSE IF status # RpcInWarmupExit
       THEN [q EXCEPT !.pc = "fatal", !.how = "probe_exit", !.status = status]
  ELSE [print_once(q) EXCEPT !.pc = "loop", !.how = "probe_exit",
                             !.status = status, !.slept = @ + 1]

\* wait_for_bitcoind is called (once, at boot): cmdarr, printed = false.
WaitForBitcoind ==
  /\ fatal = ""
  /\ probe.pc = "idle"
  /\ probe' = [probe EXCEPT !.pc = "loop", !.printed = FALSE]
  /\ Driver(State)
  /\ wire' = wire

\* The loop makes one pass; a retry sleeps one second.
WaitForBitcoindPass ==
  /\ fatal = ""
  /\ probe.pc = "loop"
  /\ probe.passes < MaxProbes
  /\ \E execOk, readOk \in BOOLEAN, status \in ProbeExits :
       LET q == wait_for_bitcoind_pass(probe, execOk, readOk, status)
       IN /\ probe' = q
          /\ wire' = wire
          /\ Driver(IF q.pc = "fatal" THEN Fatal(State, NULL, q.how)
                    ELSE [State EXCEPT !.now = @ + (q.slept - probe.slept)])

\* wait_for_bitcoind is synchronous: the io loop, and with it every caller
\* and bcli_finished, runs only while it is not in progress.
ProbeOps == {[op |-> o, n |-> 0] : o \in {"getblockcount", "sendrawtx"}}

ProbeCall == probe.pc # "loop" /\ CallOf(ProbeOps)

ProbeFinished == probe.pc # "loop" /\ BcliFinishedOf({})

NextProbe ==
  \/ WaitForBitcoind
  \/ WaitForBitcoindPass
  \/ ProbeCall
  \/ ProbeFinished

SpecProbe == Init /\ [][NextProbe]_vars

\* The step is one pass of the probe's loop.
ProbePass == probe'.passes = probe.passes + 1

\* The pass ended the probe: it returned or it was fatal.
ProbeEnded == probe'.pc # "loop"

\* What the claim says of one pass apart from when the probe ends.
ProbePassRules ==
  /\ probe'.pc = "returned" => (probe'.how = "probe_exit" /\ probe'.status = 0)
  /\ (probe'.how = "probe_exit" /\ probe'.status = 0) => (probe'.pc = "returned" /\ fatal' = "")
  /\ (probe'.how = "probe_exit" /\ probe'.status = RpcInWarmupExit) =>
       /\ probe'.pc = "loop"
       /\ fatal' = ""
       /\ probe'.slept = probe.slept + 1
       /\ now' = now + 1
       /\ probe'.logged = 1
  /\ (probe'.how = "probe_exit" /\ probe'.status \notin {0, RpcInWarmupExit}) =>
       (probe'.pc = "fatal" /\ fatal' = "probe_exit")
  /\ probe'.pc = "fatal" <=> fatal' # ""

\* C14 as stated: the probe returns only after an exit with status 0, status
\* 28 means a retry after one second with the warm-up message logged once in
\* all, any other nonzero exit is fatal, and the probe ends exactly with a
\* pass whose child exits with a status other than 28.
C14_ProbeEndsIffExitNot28 ==
  [][ProbePass =>
       /\ ProbePassRules
       /\ ProbeEnded <=> (probe'.how = "probe_exit" /\ probe'.status # RpcInWarmupExit)]_vars

\* C14 as amended: ... and the probe ends exactly with a pass that does not
\* see its child exit with status 28: the child exits with another status, is
\* killed by a signal, cannot be spawned or cannot be read.
C14_ProbeEndsUnlessExit28 ==
  /\ [][ProbePass =>
          /\ ProbePassRules
          /\ ProbeEnded <=> ~(probe'.how = "probe_exit" /\ probe'.status = RpcInWarmupExit)
          /\ (ProbeEnded /\ probe'.pc # "returned") =>
               (fatal' = probe'.how /\ (probe'.how = "probe_exit" => probe'.status = 1))]_vars
  /\ [](probe.logged <= 1 /\ (probe.logged = 1 <=> probe.slept >= 1))

\* The probe returned at its third pass, after two retries and one message.
C14_Witness ==
  /\ probe.pc = "returned"
  /\ probe.passes = 3
  /\ probe.slept = 2
  /\ probe.logged = 1
  /\ fatal = ""

\* The chain bitcoind_getoutput_ starts: processing function and
\* nonzero_exit_ok of its first, second and third child invocation.
GoChain == <<"process_getblockhash_for_txout", "process_getblock", "process_gettxout">>
GoCapture == <<TRUE, FALSE, TRUE>>

\* The step is a run of bcli_finished that reached the processing function of
\* a get_output request, whose child wrote Rout.
GoStep ==
  /\ FinishedStep
  /\ Len(events') >= 2
  /\ events'[2].type = "output"
  /\ bcli[Rid].process \in {GoChain[k] : k \in 1..3}
Rout == events'[2].fn

Cbs == {i \in 1..Len(events') : events'[i].type = "cb"}
Enqs == {i \in 1..Len(events') : events'[i].type = "enqueue"}

\* The run fired the call's callback once, with val, and started no child.
GoCb(val) ==
  /\ Cardinality(Cbs) = 1
  /\ \A i \in Cbs : events'[i].val = val /\ events'[i].call = bcli[Rid].call
  /\ Enqs = {}
  /\ fatal' \in {"", "exec"}
  /\ fatal' = "" => calls'[bcli[Rid].call].fired = 1

\* The run fired no callback and enqueued step k of the chain.
GoNext(k) ==
  /\ Cbs = {}
  /\ Cardinality(Enqs) = 1
  /\ \A i \in Enqs :
       /\ events'[i].fn = GoChain[k]
       /\ events'[i].call = bcli[Rid].call
       /\ fatal' = "" => /\ bcli'[events'[i].id].capture = GoCapture[k]
                         /\ bcli'[events'[i].id].anchor = NULL
  /\ fatal' \in {"", "exec"}

\* The run was fatal on what the child wrote, and no callback fired.
GoFatal == fatal' = "parse" /\ Cbs = {} /\ Enqs = {}

GoRule ==
  CASE bcli[Rid].process = GoChain[1] ->
         IF Rstatus # 0 THEN GoCb(NULL) ELSE GoNext(2)
    [] bcli[Rid].process = GoChain[2] ->
         IF Rout = "good" THEN GoNext(3)
         ELSE IF Rout = "nomember" THEN GoCb(NULL) ELSE GoFatal
    [] bcli[Rid].process = GoChain[3] ->
         IF Rstatus # 0 THEN GoCb(NULL)
         ELSE IF Rout = "good" THEN GoCb(1) ELSE GoFatal

\* The requests of get_output call c are the chain's steps in order, one at
\* a time, and the call's callback fired at most once, after the last of them.
GoInOrder(c) ==
  /\ Cardinality(ReqsOf(c)) \in 1..3
  /\ Cardinality({id \in ReqsOf(c) : ~bcli[id].freed}) <= 1
  /\ \A id \in ReqsOf(c) :
       LET k == Cardinality({j \in ReqsOf(c) : j <= id})
       IN /\ ~bcli[id].freed =>
               (bcli[id].process = GoChain[k] /\ bcli[id].capture = GoCapture[k])
          /\ bcli[id].ran \in {<<>>, <<GoChain[k]>>}
          /\ bcli[id].freed => bcli[id].ran # <<>>
  /\ calls[c].fired <= 1
  /\ calls[c].fired = 1 => \A id \in ReqsOf(c) : bcli[id].freed

\* C15: get_output runs getblockhash (capture), getblock (no capture) and
\* gettxout (capture) one after the other; the callback fires once per call:
\* with NULL and no further step when getblockhash exits nonzero or the block
\* has no tx[txnum], with NULL when gettxout exits nonzero, with the output
\* otherwise; a zero-exit gettxout answer without value or scriptPubKey.hex
\* is fatal and never reported as missing.  The callback comes unless the
\* driver aborts or is shut down first.
C15_GetOutputChain ==
  /\ [][GoStep => GoRule]_vars
  /\ [](fatal = "" => \A c \in DOMAIN calls : calls[c].op = "getoutput" => GoInOrder(c))
  /\ []<>(\/ fatal # ""
          \/ shutdown
          \/ \A c \in DOMAIN calls : calls[c].op = "getoutput" => calls[c].fired = 1)

\* A get_output call went through its three child invocations and its
\* callback fired with the output.
C15_Witness ==
  /\ fatal = ""
  /\ \E i \in 1..Len(events) :
       /\ events[i].type = "cb"
       /\ events[i].fn = "getoutput"
       /\ events[i].val = 1
       /\ Cardinality(ReqsOf(events[i].call)) = 3
       /\ calls[events[i].call].fired = 1

\* ============================================================ wire/fromwire.c
\* A message is a sequence of bytes; the cursor is the index of the next byte
\* to read (NULL once extraction failed) and max the bytes left.
\* wire.fn names the decode function that ran last, wire.ret is what it
\* returned (<<>> for void), wire.out the destination it was given and
\* wire.outstate what became of that: "none" without a destination,
\* "written", "untouched", or "unspecified" where a library call that failed
\* had it in hand.

\* Length of the longest message decoded.
MaxBuf == 66
\* Decode calls made on one message.
MaxDecodes == 3
\* Messages up to this length are taken with every content over TinyBytes.
MaxEnum == 2

\* sizeof(der): PUBKEY_DER_LEN
PUBKEY_DER_LEN == 33
\* u8 compact[64]
CompactLen == 64
\* sizeof(struct sha256), and of the 32-byte structs read like it
Sha256Len == 32
\* sizeof(struct ripemd160)
Ripemd160Len == 20

Zeros(n) == [i \in 1..n |-> 0]

\* The n bytes at p.
Bytes(buf, p, n) == [i \in 1..n |-> buf[p + i - 1]]

\* A slip: the length test off by one.
fromwire_lax(w, n) ==
  IF w.max + 1 < n
  THEN [w |-> [w EXCEPT !.cursor = NULL, !.max = 0], p |-> NULL, copy |-> Zeros(n)]
  ELSE [w |-> [w EXCEPT !.cursor = @ + n, !.max = @ - n], p |-> w.cursor,
        copy |-> Zeros(n)]

\* fromwire_fail: *cursor = NULL; *max = 0; return NULL
fromwire_fail(w) == [w EXCEPT !.cursor = NULL, !.max = 0]

\* fromwire(cursor, max, copy, n): the cursor and max afterwards, the pointer
\* returned and what copy (if given) holds.
fromwire(w, n) ==
  IF w.max < n
  THEN [w |-> fromwire_fail(w), p |-> NULL, copy |-> Zeros(n)]
  ELSE [w |-> [w EXCEPT !.cursor = @ + n, !.max = @ - n], p |-> w.cursor,
        copy |-> Bytes(w.buf, w.cursor, n)]

\* The function fn returns: what the caller has afterwards.
Done(w, fn, ret, out, outstate) ==
  [w EXCEPT !.decodes = @ + 1, !.fn = fn, !.ret = ret, !.out = out,
            !.outstate = outstate, !.arg = <<>>]

\* be16_to_cpu
be16_to_cpu(b) == b[1] * 256 + b[2]

\* be32_to_cpu, as its two 16-bit halves, high first
be32_to_cpu(b) == <<b[1] * 256 + b[2], b[3] * 256 + b[4]>>

\* A slip: the three bytes taken little-endian.
le32_to_cpu_24(b) == b[4] * 65536 + b[3] * 256 + b[2]

\* be32_to_cpu of a value whose first byte is 0
be32_to_cpu_24(b) == b[2] * 65536 + b[3] * 256 + b[4]

\* be64_to_cpu, as its four 16-bit halves, high first
be64_to_cpu(b) ==
  <<b[1] * 256 + b[2], b[3] * 256 + b[4], b[5] * 256 + b[6], b[7] * 256 + b[8]>>

\* fromwire_u8: the cursor afterwards and the value
read_u8(w) ==
  LET r == fromwire(w, 1)
  IN [w |-> r.w, val |-> IF r.p = NULL THEN 0 ELSE r.copy[1]]

\* fromwire_u16: the cursor afterwards and the value
read_u16(w) ==
  LET r == fromwire(w, 2)
  IN [w |-> r.w, val |-> IF r.p = NULL THEN 0 ELSE be16_to_cpu(r.copy)]

fromwire_u8(w) ==
  LET r == read_u8(w) IN Done(r.w, "fromwire_u8", <<r.val>>, <<>>, "none")

fromwire_u16(w) ==
  LET r == read_u16(w) IN Done(r.w, "fromwire_u16", <<r.val>>, <<>>, "none")

fromwire_u32(w) ==
  LET r == fromwire(w, 4)
  IN Done(r.w, "fromwire_u32",
          IF r.p = NULL THEN <<0, 0>> ELSE be32_to_cpu(r.copy), <<>>, "none")

fromwire_u64(w) ==
  LET r == fromwire(w, 8)
  IN Done(r.w, "fromwire_u64",
          IF r.p = NULL THEN <<0, 0, 0, 0>> ELSE be64_to_cpu(r.copy), <<>>, "none")

\* The conversion of the u8 to the bool returned.
u8_to_bool(v) == IF v # 0 THEN 1 ELSE 0

fromwire_bool(w) ==
  LET r == fromwire(w, 1)
  IN IF r.p = NULL THEN Done(r.w, "fromwire_bool", <<0>>, <<>>, "none")
     ELSE Done(IF r.copy[1] # 0 /\ r.copy[1] # 1 THEN fromwire_fail(r.w) ELSE r.w,
               "fromwire_bool", <<u8_to_bool(r.copy[1])>>, <<>>, "none")

\* fromwire_pubkey; valid is what pubkey_from_der says of the bytes
fromwire_pubkey(w, valid) ==
  LET r == fromwire(w, PUBKEY_DER_LEN)
  IN IF r.p = NULL THEN Done(r.w, "fromwire_pubkey", <<>>, <<>>, "untouched")
     ELSE IF ~valid
          THEN Done(fromwire_fail(r.w), "fromwire_pubkey", <<>>, <<>>, "unspecified")
          ELSE Done(r.w, "fromwire_pubkey", <<>>, r.copy, "written")

\* fromwire_secp256k1_ecdsa_signature; valid is what
\* secp256k1_ecdsa_signature_parse_compact says of the bytes
fromwire_secp256k1_ecdsa_signature(w, valid) ==
  LET r == fromwire(w, CompactLen)
      fn == "fromwire_secp256k1_ecdsa_signature"
  IN IF r.p = NULL THEN Done(r.w, fn, <<>>, <<>>, "untouched")
     ELSE IF ~valid THEN Done(fromwire_fail(r.w), fn, <<>>, <<>>, "unspecified")
          ELSE Done(r.w, fn, <<>>, r.copy, "written")

\* fromwire_secp256k1_ecdsa_recoverable_signature: both reads are made
\* whatever the first gave, then the parser is asked
fromwire_secp256k1_ecdsa_recoverable_signature(w, valid) ==
  LET r1 == fromwire(w, CompactLen)
      r2 == read_u8(r1.w)
      fn == "fromwire_secp256k1_ecdsa_recoverable_signature"
  IN IF ~valid THEN Done(fromwire_fail(r2.w), fn, <<>>, <<>>, "unspecified")
     ELSE Done(r2.w, fn, <<>>, r1.copy \o <<r2.val>>, "written")

\* fromwire_secret, fromwire_privkey, fromwire_channel_id, fromwire_sha256,
\* fromwire_sha256_double, fromwire_bitcoin_txid, fromwire_bitcoin_blkid,
\* fromwire_preimage, fromwire_ripemd160: fromwire(cursor, max, dst, sizeof(*dst))
FixedWidth ==
  [fromwire_secret |-> Sha256Len, fromwire_privkey |-> Sha256Len,
   fromwire_channel_id |-> Sha256Len, fromwire_sha256 |-> Sha256Len,
   fromwire_sha256_double |-> Sha256Len, fromwire_bitcoin_txid |-> Sha256Len,
   fromwire_bitcoin_blkid |-> Sha256Len, fromwire_preimage |-> Sha256Len,
   fromwire_ripemd160 |-> Ripemd160Len]

fromwire_fixed(w, fn) ==
  LET r == fromwire(w, FixedWidth[fn]) IN Done(r.w, fn, <<>>, r.copy, "written")

\* fromwire_u8_array(cursor, max, arr, num)
fromwire_u8_array(w, num) ==
  LET r == fromwire(w, num)
  IN [Done(r.w, "fromwire_u8_array", <<>>, r.copy, "written") EXCEPT !.arg = <<num>>]

\* fromwire_pad(cursor, max, num): fromwire with copy = NULL
fromwire_pad(w, num) ==
  LET r == fromwire(w, num)
  IN [Done(r.w, "fromwire_pad", <<>>, <<>>, "none") EXCEPT !.arg = <<num>>]

\* fromwire_short_channel_id: blocknum, txnum (3 bytes each into a zeroed
\* be32) and outnum, read one after the other whatever the earlier gave
fromwire_short_channel_id(w) ==
  LET r1 == fromwire(w, 3)
      blocknum == be32_to_cpu_24(<<0>> \o r1.copy)
      r2 == fromwire(r1.w, 3)
      txnum == be32_to_cpu_24(<<0>> \o r2.copy)
      r3 == read_u16(r2.w)
  IN Done(r3.w, "fromwire_short_channel_id", <<>>, <<blocknum, txnum, r3.val>>,
          "written")

\* a ^ b on non-negative integers
RECURSIVE Xor(_, _)
Xor(a, b) ==
  IF a = 0 THEN b
  ELSE IF b = 0 THEN a
  ELSE (((a % 2) + (b % 2)) % 2) + 2 * Xor(a \div 2, b \div 2)

\* A slip: the two bytes of txout exchanged.
derive_channel_id_swapped(txid, txout) ==
  [i \in 1..Len(txid) |->
     IF i = Len(txid) - 1 THEN Xor(txid[i], txout) % 256
     ELSE IF i = Len(txid) THEN Xor(txid[i], txout \div 256) % 256
     ELSE txid[i]]

\* derive_channel_id: memcpy, then the last two bytes (u8) ^= txout >> 8 and
\* ^= txout
derive_channel_id(txid, txout) ==
  [i \in 1..Len(txid) |->
     IF i = Len(txid) - 1 THEN Xor(txid[i], txout \div 256) % 256
     ELSE IF i = Len(txid) THEN Xor(txid[i], txout) % 256
     ELSE txid[i]]

\* ------------------------------------------------------- messages and callers
TinyBytes == {0, 1, 2, 255}

\* len bytes counting up from start, wrapping at 256
Ramp(len, start) == [i \in 1..len |-> (start + i - 1) % 256]

\* The messages decoded: every short one over TinyBytes, longer ones of
\* every length with content that tells the positions apart, and the
\* encoding of the short channel id (block 1, tx 2, output 3).
WireInputs ==
  UNION {[1..n -> TinyBytes] : n \in 0..MaxEnum}
    \cup {Ramp(len, start) : len \in 0..MaxBuf, start \in {0, 250}}
    \cup {<<0, 0, 1, 0, 0, 2, 0, 3>>}

\* The funding output indexes handed to derive_channel_id (u16).
TxOuts == {0, 1, 255, 256, 258, 4660, 65535}

\* The array lengths handed to fromwire_u8_array and fromwire_pad.
ArrayNums == {0, 1, 3}

\* A caller holds a message and a cursor at its start, or a cursor that an
\* earlier failure already set to (NULL, 0).
InitWire ==
  /\ InitDriver
  /\ \E b \in WireInputs, poisoned \in BOOLEAN :
       wire = [NoWire EXCEPT !.buf = b,
                             !.cursor = IF poisoned THEN NULL ELSE 1,
                             !.max = IF poisoned THEN 0 ELSE Len(b)]

\* The caller makes one more decode call, whose result is w.
Decoded(w) ==
  /\ wire.decodes < MaxDecodes
  /\ wire' = w
  /\ UNCHANGED <<pending, req_running, shutdown, error_count, first_error_time,
                 bcli, calls, stoppers, anchorAlive, alive, now, fatal,
                 spawnLog, cbLog, streakOn, streakStart, events, probe>>

FromwireFail == Decoded(Done(fromwire_fail(wire), "fromwire_fail", <<>>, <<>>, "none"))

FromwireU8 == Decoded(fromwire_u8(wire))

FromwireU16 == Decoded(fromwire_u16(wire))

FromwireU32 == Decoded(fromwire_u32(wire))

FromwireU64 == Decoded(fromwire_u64(wire))

FromwireBool == Decoded(fromwire_bool(wire))

FromwirePubkey == \E valid \in BOOLEAN : Decoded(fromwire_pubkey(wire, valid))

FromwireSignature ==
  \E valid \in BOOLEAN : Decoded(fromwire_secp256k1_ecdsa_signature(wire, valid))

FromwireRecoverableSignature ==
  \E valid \in BOOLEAN :
    Decoded(fromwire_secp256k1_ecdsa_recoverable_signature(wire, valid))

FromwireFixed == \E fn \in DOMAIN FixedWidth : Decoded(fromwire_fixed(wire, fn))

FromwireU8Array == \E num \in ArrayNums : Decoded(fromwire_u8_array(wire, num))

FromwirePad == \E num \in ArrayNums : Decoded(fromwire_pad(wire, num))

FromwireShortChannelId == Decoded(fromwire_short_channel_id(wire))

\* derive_channel_id on the txid that fromwire_bitcoin_txid just gave
DeriveChannelId ==
  /\ wire.fn = "fromwire_bitcoin_txid"
  /\ \E txout \in TxOuts :
       Decoded([wire EXCEPT !.decodes = @ + 1, !.fn = "derive_channel_id",
                            !.ret = <<>>, !.arg = <<txout>> \o wire.out,
                            !.out = derive_channel_id(wire.out, txout),
                            !.outstate = "written"])

NextWire ==
  \/ FromwireFail
  \/ FromwireU8
  \/ FromwireU16
  \/ FromwireU32
  \/ FromwireU64
  \/ FromwireBool
  \/ FromwirePubkey
  \/ FromwireSignature
  \/ FromwireRecoverableSignature
  \/ FromwireFixed
  \/ FromwireU8Array
  \/ FromwirePad
  \/ FromwireShortChannelId
  \/ DeriveChannelId

SpecWire == InitWire /\ [][NextWire]_vars

\* ------------------------------------------------------------- codec claims
\* The step is a call of one of the decode functions.
DecodeStep ==
  /\ wire'.decodes = wire.decodes + 1
  /\ wire'.fn \notin {"fromwire_fail", "derive_channel_id"}

\* The bytes the decode function that ran takes off the wire.
WidthOf(w) ==
  CASE w.fn = "fromwire_u8" -> 1
    [] w.fn = "fromwire_u16" -> 2
    [] w.fn = "fromwire_u32" -> 4
    [] w.fn = "fromwire_u64" -> 8
    [] w.fn = "fromwire_bool" -> 1
    [] w.fn = "fromwire_pubkey" -> 33
    [] w.fn = "fromwire_secp256k1_ecdsa_signature" -> 64
    [] w.fn = "fromwire_secp256k1_ecdsa_recoverable_signature" -> 65
    [] w.fn = "fromwire_short_channel_id" -> 8
    [] w.fn = "fromwire_ripemd160" -> 20
    [] w.fn \in {"fromwire_u8_array", "fromwire_pad"} -> w.arg[1]
    [] OTHER -> 32

Poisoned(w) == w.cursor = NULL /\ w.max = 0

\* Nothing the caller got from the call holds anything but zero.
AllZero(w) ==
  /\ \A i \in DOMAIN w.ret : w.ret[i] = 0
  /\ w.outstate \in {"none", "written", "unspecified"}
  /\ w.outstate = "written" => \A i \in DOMAIN w.out : w.out[i] = 0

\* The call took exactly its width off the wire and filled its out-value.
Advanced ==
  /\ wire.max >= WidthOf(wire')
  /\ wire'.cursor = wire.cursor + WidthOf(wire')
  /\ wire'.max = wire.max - WidthOf(wire')
  /\ wire'.outstate \in {"none", "written"}

\* C16 as stated: every decode function either advances the cursor by its
\* width and fills its out-value, or sets the cursor to (NULL, 0) and leaves
\* the out-value all zero; input shorter than the width does the latter.
C16_NoPartialReads ==
  [][DecodeStep =>
       /\ Advanced \/ (Poisoned(wire') /\ AllZero(wire'))
       /\ wire.max < WidthOf(wire') => (Poisoned(wire') /\ AllZero(wire'))]_vars

\* The decode functions that are one call of fromwire and nothing else.
SingleReads ==
  {"fromwire_u8", "fromwire_u16", "fromwire_u32", "fromwire_u64",
   "fromwire_u8_array", "fromwire_pad"} \cup DOMAIN FixedWidth

\* C16 for the functions that are a single fromwire call: all or nothing, and
\* what is filled in is the bytes at the cursor.
C16_SingleReadsAllOrNothing ==
  [][(DecodeStep /\ wire'.fn \in SingleReads) =>
       LET n == WidthOf(wire')
           got == Bytes(wire.buf, wire.cursor, n)
       IN IF wire.max >= n
          THEN /\ Advanced
               /\ wire'.outstate = "written" => wire'.out = got
               /\ wire'.fn = "fromwire_u8" => wire'.ret = <<got[1]>>
               /\ wire'.fn = "fromwire_u16" => wire'.ret = <<got[1] * 256 + got[2]>>
               /\ wire'.fn = "fromwire_u32" =>
                    wire'.ret = <<got[1] * 256 + got[2], got[3] * 256 + got[4]>>
               /\ wire'.fn = "fromwire_u64" =>
                    wire'.ret = <<got[1] * 256 + got[2], got[3] * 256 + got[4],
                                  got[5] * 256 + got[6], got[7] * 256 + got[8]>>
          ELSE /\ Poisoned(wire')
               /\ AllZero(wire')
               /\ wire'.outstate = "written" => wire'.out = Zeros(n)]_vars

\* A 32-byte read found fewer bytes than that, the first of them not zero:
\* the cursor is (NULL, 0) and the destination all zero.
C16_Witness ==
  /\ wire.fn = "fromwire_sha256"
  /\ wire.decodes = 2
  /\ Poisoned(wire)
  /\ wire.out = Zeros(32)
  /\ Len(wire.buf) = 31
  /\ wire.buf[1] # 0

\* C17: once the cursor is (NULL, 0) it stays so through every further call,
\* of any decode function and of fromwire_fail, and every value returned is
\* zero (NULL).
C17_PoisonAbsorbs ==
  [][(Poisoned(wire) /\ wire'.decodes = wire.decodes + 1
        /\ wire'.fn # "derive_channel_id") =>
       /\ Poisoned(wire')
       /\ \A i \in DOMAIN wire'.ret : wire'.ret[i] = 0
       /\ wire'.outstate = "written" => \A i \in DOMAIN wire'.out : wire'.out[i] = 0]_vars

\* A read of too many bytes set the cursor to (NULL, 0); a recoverable
\* signature that the parser accepted and a pad of no bytes were read after
\* it, and the cursor is still (NULL, 0).
C17_Witness ==
  /\ wire.decodes = 3
  /\ wire.fn = "fromwire_pad"
  /\ wire.arg = <<0>>
  /\ Poisoned(wire)
  /\ Len(wire.buf) = 3

\* The byte at the cursor before the step.
AtCursor == wire.buf[wire.cursor]

BoolStep == DecodeStep /\ wire'.fn = "fromwire_bool" /\ wire.max >= 1

\* C18 as stated: fromwire_bool with a byte left: 0 and 1 advance the cursor
\* by one and are the result; any other byte sets the cursor to (NULL, 0) and
\* the result is false.
C18_BoolFalseOnBadByte ==
  [][BoolStep =>
       IF AtCursor \in {0, 1}
       THEN /\ wire'.cursor = wire.cursor + 1
            /\ wire'.max = wire.max - 1
            /\ wire'.ret = <<AtCursor>>
       ELSE /\ Poisoned(wire')
            /\ wire'.ret = <<0>>]_vars

\* C18, what the code does: ... any other byte sets the cursor to (NULL, 0)
\* and the result is true.
C18_BoolTrueOnBadByte ==
  [][BoolStep =>
       IF AtCursor \in {0, 1}
       THEN /\ wire'.cursor = wire.cursor + 1
            /\ wire'.max = wire.max - 1
            /\ wire'.ret = <<AtCursor>>
       ELSE /\ Poisoned(wire')
            /\ wire'.ret = <<1>>]_vars

\* fromwire_bool met the byte 255 and returned true on a cursor it poisoned.
C18_Witness ==
  /\ wire.fn = "fromwire_bool"
  /\ wire.decodes = 1
  /\ wire.buf = <<255, 0>>
  /\ Poisoned(wire)
  /\ wire.ret = <<1>>

\* C19: the channel id derive_channel_id gives has the txid's first 30 bytes,
\* then txid[30] XOR (n >> 8) and txid[31] XOR (n mod 256); with n = 0 it is
\* the txid, and deriving again with the same n gives the txid back.
C19_DeriveXorsLastTwoBytes ==
  [][(wire'.decodes = wire.decodes + 1 /\ wire'.fn = "derive_channel_id") =>
       LET txid == wire.out
           n == wire'.arg[1]
           id == wire'.out
       IN /\ Len(id) = 32
          /\ Len(txid) = 32
          /\ \A i \in 1..30 : id[i] = txid[i]
          /\ id[31] = Xor(txid[31], n \div 256)
          /\ id[32] = Xor(txid[32], n % 256)
          /\ n = 0 => id = txid
          /\ derive_channel_id(id, n) = txid
          /\ \A i \in 1..32 : id[i] \in 0..255]_vars

\* A channel id was derived with n = 0x1234 from a txid read off the wire,
\* and differs from it in each of the last two bytes.
C19_Witness ==
  /\ wire.fn = "derive_channel_id"
  /\ wire.arg[1] = 4660
  /\ wire.out[31] = Xor(wire.arg[32], 18)
  /\ wire.out[32] = Xor(wire.arg[33], 52)
  /\ wire.out[31] # wire.arg[32]
  /\ wire.out[32] # wire.arg[33]
  /\ wire.arg[32] # 0

ScidExample == <<0, 0, 1, 0, 0, 2, 0, 3>>

\* C20: with 8 bytes or more left fromwire_short_channel_id takes 8 and gives
\* blocknum, txnum and outnum as big-endian fields of 3, 3 and 2 bytes; the
\* bytes 00 00 01 00 00 02 00 03 give block 1, tx 2, output 3.
C20_ScidBigEndian ==
  /\ [][(DecodeStep /\ wire'.fn = "fromwire_short_channel_id" /\ wire.max >= 8) =>
          LET b == Bytes(wire.buf, wire.cursor, 8)
          IN /\ wire'.cursor = wire.cursor + 8
             /\ wire'.max = wire.max - 8
             /\ wire'.out = <<b[1] * 65536 + b[2] * 256 + b[3],
                              b[4] * 65536 + b[5] * 256 + b[6],
                              b[7] * 256 + b[8]>>
             /\ wire'.out[1] < 16777216
             /\ wire'.out[2] < 16777216
             /\ wire'.out[3] < 65536]_vars
  /\ []((wire.buf = ScidExample /\ wire.decodes = 1 /\ ~Poisoned(wire)
         /\ wire.fn = "fromwire_short_channel_id") => wire.out = <<1, 2, 3>>)

\* The bytes 00 00 01 00 00 02 00 03 were decoded to (1, 2, 3), all of the
\* message taken.
C20_Witness ==
  /\ wire.buf = ScidExample
  /\ wire.fn = "fromwire_short_channel_id"
  /\ wire.out = <<1, 2, 3>>
  /\ wire.cursor = 9
  /\ wire.max = 0

\* C21: between handlers, unless the driver is shutting down, a non-empty
\* pending queue means that a child is in flight: req_running is set exactly
\* while a spawned child is not yet reaped, so a request enqueued on an idle
\* driver was spawned by its own start_bitcoin_cli call, and bcli_finished
\* left the queue head spawned.
C21_NoStuckQueue ==
  (fatal = "" /\ ~shutdown) =>
    /\ pending # <<>> => req_running
    /\ req_running <=> alive # {}
    /\ \A id \in DOMAIN bcli :
         \/ bcli[id].freed
         \/ id \in alive
         \/ \E i \in 1..Len(pending) : pending[i] = id
    /\ \A id \in alive : \A i \in 1..Len(pending) : id < pending[i]

\* bcli_finished has reaped a child and spawned the request that was waiting
\* at the head of the queue; a request enqueued meanwhile waits behind it.
C21_Witness ==
  /\ fatal = ""
  /\ ~shutdown
  /\ InFinished
  /\ pending # <<>>
  /\ req_running
  /\ \E i \in 1..Len(events) :
       /\ events[i].type = "spawn"
       /\ \A j \in 1..Len(events) :
            events[j].type = "enqueue" => events[j].id # events[i].id

\* The step is a run of bcli_finished on a request without exit-status
\* capture whose child exited nonzero within the window of its streak.
ToleratedStep ==
  /\ FinishedStep
  /\ Rstatus \notin {0, Signalled}
  /\ ~bcli[Rid].capture
  /\ now - StreakBegan <= ErrorWindowSec

Procs == {i \in 1..Len(events') : events'[i].type = "process"}
Commits == {i \in 1..Len(events') : events'[i].type = "db_commit"}

\* The run called the request's processing function once, after
\* db_begin_transaction, on what the child wrote.
ProcessedOnce ==
  /\ Len(events') >= 4
  /\ events'[2].type = "output" /\ events'[2].id = Rid
  /\ events'[3].type = "db_begin"
  /\ events'[4].type = "process"
  /\ events'[4].id = Rid
  /\ events'[4].fn = bcli[Rid].process
  /\ Procs = {4}

\* The run committed, freed the request and left the queue head, if any,
\* spawned (by the closing next_bcli, or earlier by a start_bitcoin_cli of
\* the processing function, req_running being clear by then); the request
\* itself was not started again.
FreedAndAdvanced ==
  /\ Cardinality(Commits) = 1
  /\ \A i \in Commits : i > 4 /\ events'[i].id = Rid
  /\ bcli'[Rid].freed
  /\ Rid \notin alive'
  /\ \A i \in 1..Len(pending') : pending'[i] # Rid
  /\ \A i \in 1..Len(events') :
       events'[i].type \in {"enqueue", "spawn"} => events'[i].id # Rid
  /\ pending # <<>> =>
       /\ req_running'
       /\ \E j \in 5..Len(events') :
            events'[j].type = "spawn" /\ events'[j].id = Head(pending)
  /\ pending' # <<>> => req_running'

QueueAdvanced ==
  /\ bcli'[Rid].freed
  /\ IF pending = <<>>
     THEN ~req_running' /\ alive' = {} /\ pending' = <<>>
     ELSE req_running' /\ alive' = {Head(pending)} /\ pending' = Tail(pending)

\* The step frees anchors (the caller's tal_free of a ctx).
AnchorsFreed == anchorAlive \ anchorAlive'

\* C23: bcli_finished on a request whose anchor was destroyed runs
\* process_donothing, fires no callback, enqueues nothing and cannot abort on
\* the output; it clears req_running and leaves the queue as every other
\* completion that enqueues nothing does.  A stopper always refers to a
\* request that is not freed and hangs from a live anchor, so freeing an
\* anchor changes only requests of that anchor that have not completed:
\* no freed request is written to.
C23_CancellationSafeBothOrders ==
  /\ [](fatal = "" =>
          \A a \in DOMAIN stoppers : \A id \in stoppers[a] :
            /\ a \in anchorAlive
            /\ id \in DOMAIN bcli
            /\ ~bcli[id].freed
            /\ bcli[id].stopper = a
            /\ bcli[id].anchor = a)
  /\ [][/\ (FinishedStep /\ ~shutdown /\ Rstatus # Signalled /\ bcli[Rid].cancelled
              /\ fatal' # "streak") =>
             /\ bcli[Rid].process = "process_donothing"
             /\ Procs = {4} /\ events'[4].fn = "process_donothing"
             /\ Cbs = {} /\ Enqs = {}
             /\ fatal' \in {"", "exec"}
        /\ (FinishedStep /\ ~shutdown /\ fatal' = "" /\ Enqs = {}) => QueueAdvanced
        /\ (fatal' = "" /\ AnchorsFreed # {}) =>
             /\ Len(bcli') = Len(bcli)
             /\ \A id \in DOMAIN bcli :
                  IF bcli[id].freed \/ bcli[id].anchor \notin AnchorsFreed
                  THEN bcli'[id] = bcli[id]
                  ELSE /\ bcli'[id].process = "process_donothing"
                       /\ bcli'[id].stopper = NULL
                       /\ ~bcli'[id].freed
             /\ alive' = alive /\ pending' = pending
             /\ req_running' = req_running]_vars

\* Both orders have happened: the first request completed after its anchor
\* was freed and the request waiting behind it was spawned; that one
\* completed while its anchor lived, and the anchor was freed afterwards.
C23_Witness ==
  /\ fatal = ""
  /\ ~shutdown
  /\ Len(bcli) >= 2
  /\ bcli[1].cancelled /\ bcli[1].freed /\ bcli[1].ran = <<"process_donothing">>
  /\ Len(spawnLog) >= 2
  /\ bcli[2].anchor # NULL
  /\ bcli[2].freed
  /\ ~bcli[2].cancelled
  /\ bcli[2].ran # <<>> /\ bcli[2].ran[1] # "process_donothing"
  /\ bcli[2].anchor \notin anchorAlive

\* The driver with callers that go on calling while it is torn down:
\* start_bitcoin_cli and next_bcli do not look at bitcoind->shutdown, so a
\* caller that still holds the driver after destroy_bitcoind has run (a
\* destructor of something the driver owns) gets its request enqueued.
LateCallOf(ops) ==
  /\ fatal = ""
  /\ \E o \in ops, execOk \in BOOLEAN :
       /\ Fits(State, o)
       /\ Install(PublicOp(State, o, NULL, execOk))

LateCall == LateCallOf(FairOps)

LateFinished == BcliFinishedOf({})

NextLate ==
  \/ LateCall
  \/ LateFinished
  \/ DestroyBitcoind

SpecLate == Init /\ [][NextLate]_vars

\* The step spawned a child.
SpawnedInStep ==
  /\ events' # <<>>
  /\ \E i \in 1..Len(events') : events'[i].type = "spawn"

\* C24 as stated: once shutdown is set, no step spawns a child.
C24_NoSpawnAfterShutdown ==
  [][shutdown => ~SpawnedInStep]_vars

\* C24: once shutdown is set, bcli_finished spawns nothing and leaves the
\* pending queue as it is, with req_running clear; a child is spawned after
\* shutdown only by a start_bitcoin_cli called after shutdown while no child
\* is in flight, and it is the head of the queue that is spawned.
C24_NoSpawnAfterShutdownByFinished ==
  [][shutdown =>
       /\ shutdown'
       /\ FinishedStep =>
            /\ ~SpawnedInStep
            /\ fatal' = "" => (pending' = pending /\ ~req_running' /\ alive' = {})
       /\ SpawnedInStep =>
            /\ events'[1].type = "call"
            /\ ~req_running
            /\ alive = {}
            /\ fatal' = ""
            /\ Len(spawnLog') = Len(spawnLog) + 1
            /\ alive' = {spawnLog'[Len(spawnLog')]}
            /\ spawnLog'[Len(spawnLog')] =
                 IF pending # <<>> THEN Head(pending) ELSE Len(bcli) + 1]_vars

\* During shutdown the child in flight was reaped while a request waited:
\* it was not spawned.
C24_Witness ==
  /\ shutdown
  /\ fatal = ""
  /\ InFinished
  /\ Len(bcli) >= 2
  /\ pending # <<>>
  /\ alive = {}
  /\ \A i \in 1..Len(pending), j \in 1..Len(spawnLog) : pending[i] # spawnLog[j]

====
